---- MODULE Spec2Model ----
(***************************************************************************)
(* A model of the SDfu latent-diffusion engine (src/src/core/sdsetup.py):  *)
(* engine construction, the schedule manager (set_steps), the seeded       *)
(* random operations, the generate loop on its two integrator paths       *)
(* (discrete scheduler timesteps, k-diffusion sigmas) and DDIM inversion.  *)
(*                                                                         *)
(* Tensors are modelled exactly in their shape and row order and with      *)
(* integer entries: a latent is a sequence of batch rows, a row a sequence *)
(* of NumLoc spatial locations.  The neural sub-models are stubs (fixed    *)
(* integer functions of their inputs), as are the update rules of the      *)
(* external schedulers and k-diffusion integrators.                        *)
(***************************************************************************)
EXTENDS Integers, Sequences, FiniteSets, TLC

\* ------------------------------------------------------------------ bounds
MaxSteps == 3
MaxWarmup == 2
MaxStrengthNum == 5
MaxBatch == 2
MaxPrompts == 2
MaxSeed == 1
MaxTimeSeed == 1
MaxOps == 2
NumLoc == 2
ImgScale == 2
LatMod == 5

\* strength is k/StrengthDen: every such value is an exact binary float, so
\* Python's steps * strength is computed without rounding error
StrengthDen == 2 * 2
\* prompt weights are k/WeightDen; noise estimates are kept as numerators over
\* WeightDen, so that the default weight 1/len(cs) is exact for 1..3 prompts
WeightDen == 2 * 3

\* ------------------------------------------------------------- small helpers
None == <<>>
Some(x) == <<x>>
Min(x, y) == IF x <= y THEN x ELSE y
Max(x, y) == IF x >= y THEN x ELSE y
Range(s) == {s[j] : j \in DOMAIN s}

RECURSIVE SumSeq(_)
SumSeq(s) == IF s = <<>> THEN 0 ELSE Head(s) + SumSeq(Tail(s))

RECURSIVE Concat(_)
Concat(ss) == IF ss = <<>> THEN <<>> ELSE Head(ss) \o Concat(Tail(ss))

\* utils.isset(a, name): the attribute exists and is not None
isset(x) == x # None
\* utils.isok(*items): every item is present (not None)
isok(xs) == \A j \in DOMAIN xs : xs[j] # None

\* args.py
samplers == {"klms", "pndm", "dpm", "euler_a", "dpm2_a", "ddim", "euler"}
models == {"15", "15i", "2i", "2d", "21", "21v"}

\* the scheduler classes the engine can hold (diffusers)
SchedClasses == {"PNDM", "DPMSolverMultistep", "UniPCMultistep", "DDIM", "LMSDiscrete"}
\* scheduler.config.num_train_timesteps of the Stable Diffusion schedulers
num_train_timesteps == 1000

Engines == {1, 2}
Models == {"text_encoder", "unet", "vae", "cnet"}

VARIABLES
  pc,           \* where the engine instance is: new, load, cnet, final, ready, failed,
                \* run, done (generate), inv, inv_done (ddim_inv)
  fail,         \* why construction or a run failed ("" when it did not)
  a,            \* the configuration record handed to SDfu.__init__
  env,          \* what the engine finds installed / loaded / passed in
  eng,          \* attributes of the engine set during construction
  seed,         \* self.seed, per engine instance (None before construction)
  g_,           \* self.g_, the engine's generator: [seed, n] (n values drawn so far)
  default_gen,  \* torch's default generator, shared by the whole process: values drawn so far
  draws,        \* per engine instance, the random values its operations obtained
  ops,          \* per engine instance, the operations called on it
  scheduler,    \* self.scheduler: [cls, num_inference_steps, timesteps, sigmas]
  timesteps,    \* self.timesteps (None until set)
  sigmas,       \* self.sigmas (None until set)
  set_steps_args, \* <<steps, strength numerator, warmup>> of the last set_steps call
  hooks,        \* accelerate's CpuOffload hooks: model -> sequence of prev models
  on_device,    \* the sub-models that reside in device memory
  gen,          \* the arguments of the generate call in flight
  lat,          \* the latent of the run
  conds,        \* the conditioning tensor, one embedding per row
  bs,           \* number of conditioning blocks
  cws,          \* prompt weights in effect (numerators over WeightDen)
  k,            \* index of the next schedule entry, in the sliced schedule
  noise_pred,   \* the noise estimate of the last denoise step
  calls,        \* denoiser calls made by the run
  trace,        \* events of the run, in order
  mem_trace,    \* device residency after every placement change of the run
  inv_trace,    \* the denoiser calls of the last ddim_inv call, in order
  output        \* what generate returns

cfgVars == <<a, env>>
rngVars == <<seed, g_, default_gen, draws, ops>>
schedVars == <<scheduler, timesteps, sigmas, set_steps_args>>
memVars == <<hooks, on_device>>
genVars ==
  <<gen, lat, conds, bs, cws, k, noise_pred, calls, trace, mem_trace, inv_trace, output>>
vars == <<pc, fail, eng, cfgVars, rngVars, schedVars, memVars, genVars>>

\* ------------------------------------------------------- schedule manager
\* int(steps * strength), strength = sn / StrengthDen > 0
IntStepsStrength(steps, sn) == (steps * sn) \div StrengthDen

\* scheduler.set_timesteps(steps): the full descending schedule of the class
FullTimesteps(cls, steps) ==
  LET ratio == num_train_timesteps \div steps
      lead == [j \in 1..steps |-> (steps - j) * ratio]
  IN  IF cls = "PNDM"
      THEN \* plms timesteps (skip_prk_steps): the second entry is repeated
           IF steps = 1 THEN lead
           ELSE <<lead[1], lead[2]>> \o SubSeq(lead, 2, steps)
      ELSE lead

\* LMSDiscreteScheduler.sigmas: steps noise levels and a final 0
FullSigmas(steps) == [j \in 1..(steps + 1) |-> 2 * (steps + 1 - j)]

set_timesteps(sch, steps) ==
  [cls |-> sch.cls, num_inference_steps |-> Some(steps),
   timesteps |-> FullTimesteps(sch.cls, steps),
   sigmas |-> IF sch.cls = "LMSDiscrete" THEN FullSigmas(steps) ELSE None]

\* Python's seq[-n:] for n >= 0: -0 is 0, so n = 0 is the whole sequence; a
\* start before the beginning is clipped to the beginning
PySliceLast(s, n) ==
  IF n = 0 \/ n >= Len(s) THEN s ELSE SubSeq(s, Len(s) - n + 1, Len(s))

\* a slice that ignores its start
PySliceWhole(s, n) == s
\* Python's seq[n:] for n >= 0
PySliceFrom(s, n) == IF n >= Len(s) THEN <<>> ELSE SubSeq(s, n + 1, Len(s))

\* Python's round(n / d) for n >= 0, d > 0: to nearest, ties to even
PyRound(n, d) ==
  LET q == n \div d
      r == n % d
  IN  IF 2 * r > d THEN q + 1
      ELSE IF 2 * r < d THEN q
      ELSE IF q % 2 = 0 THEN q ELSE q + 1

\* the effective step count had the product been rounded
EffectiveStepsRounded(steps, sn) == Min(PyRound(steps * sn, StrengthDen), steps)

\* steps = min(int(steps * strength), steps)      # t_enc .. 37
EffectiveSteps(steps, sn) == Min(IntStepsStrength(steps, sn), steps)

\* SDfu.set_steps: the new <<scheduler, timesteps, sigmas>>
set_steps(sch, use_kdiff, ts, sg, steps, sn, warmup) ==
  LET sch2 == set_timesteps(sch, steps)
      n == EffectiveSteps(steps, sn)
  IN  IF use_kdiff
      THEN <<sch2, ts, PySliceLast(sch2.sigmas, n + warmup)>>
      ELSE <<sch2, PySliceLast(sch2.timesteps, n + warmup), sg>>

\* ------------------------------------------------------------ construction
\* SDfu.setseed: seed or int((time.time() % 1) * 69696); a seed that is None or
\* 0 is falsy, and the time-derived value tm is used
setseed_value(sd, tm) == IF sd # None /\ sd[1] # 0 THEN sd[1] ELSE tm
TimeSeeds == 0..MaxTimeSeed
\* torch.Generator("cuda").manual_seed(seed)
manual_seed(sd) == [seed |-> sd, n |-> 0]

NoEng ==
  [use_kdiff |-> FALSE, sampling_fn |-> None, sched_kwargs |-> None,
   use_cnet |-> FALSE, inpaintmod |-> FALSE, depthmod |-> FALSE,
   final_offload_hook |-> None]
NoScheduler == [cls |-> "", num_inference_steps |-> None, timesteps |-> None, sigmas |-> None]
NoGen ==
  [cs |-> <<>>, uc |-> 0, cfg_scale |-> 0, mask |-> None, masked_lat |-> None,
   depth |-> None, cws |-> None, cimg |-> None, ilat |-> None, offset |-> 0]

\* the scheduler class load_model_custom builds for a sampler name (lines 157-173)
SchedulerOf(sampler) ==
  CASE sampler = "pndm" -> "PNDM"
    [] sampler = "dpm"  -> "DPMSolverMultistep"
    [] sampler = "uni"  -> "UniPCMultistep"
    [] sampler = "ddim" -> "DDIM"
    [] OTHER            -> "LMSDiscrete"
\* the names lines 178-181 bind a k-diffusion sampling function to
KSamplers == {"klms", "euler", "euler_a", "dpm2_a"}
\* hasattr(self.scheduler, 'sigmas')
HasSigmas(cls) == cls = "LMSDiscrete"

vtype(model) == model = "21v"

\* SDfu.__init__, line 64: self.setseed(a.seed if isset(a, 'seed') else None)
init_setseed ==
  /\ pc = "new"
  /\ \E tm \in TimeSeeds :
       LET sd == setseed_value(a.seed, tm)
       IN  /\ seed' = [seed EXCEPT ![1] = Some(sd)]
           /\ g_' = [g_ EXCEPT ![1] = manual_seed(sd)]
  /\ pc' = "load"
  /\ UNCHANGED <<fail, eng, cfgVars, default_gen, draws, ops, schedVars, memVars, genVars>>

\* SDfu.load_model_custom, then lines 70-71 of __init__
load_model_custom ==
  /\ pc = "load"
  /\ a.model \in models
  /\ IF vtype(a.model) /\ ~env.isxf
     THEN /\ pc' = "failed"
          /\ fail' = "exit: V-models require xformers"
          /\ UNCHANGED <<eng, scheduler, on_device>>
     ELSE IF env.sched_arg = None /\ SchedulerOf(a.sampler) = "LMSDiscrete"
             /\ a.sampler \notin KSamplers
     THEN /\ pc' = "failed"
          /\ fail' = "exit: Unknown sampler"
          /\ UNCHANGED <<eng, scheduler, on_device>>
     ELSE LET cls == IF env.sched_arg = None THEN SchedulerOf(a.sampler)
                     ELSE env.sched_arg[1]
          IN  /\ scheduler' = [NoScheduler EXCEPT !.cls = cls]
              /\ eng' = [eng EXCEPT
                   !.sched_kwargs = IF env.sched_arg = None THEN Some("kwargs") ELSE None,
                   !.sampling_fn = IF env.sched_arg = None /\ cls = "LMSDiscrete"
                                   THEN Some(a.sampler) ELSE None,
                   !.use_kdiff = HasSigmas(cls)]
              /\ on_device' = IF a.lowmem THEN {} ELSE {"text_encoder", "unet", "vae"}
              /\ pc' = "cnet"
              /\ fail' = fail
  /\ UNCHANGED <<cfgVars, rngVars, timesteps, sigmas, set_steps_args, hooks, genVars>>

\* SDfu.load_model_external, then lines 70-71 of __init__
load_model_external ==
  /\ pc = "load"
  /\ a.model \notin models
  /\ scheduler' = [NoScheduler EXCEPT !.cls = env.ext_sched]
  /\ eng' = [eng EXCEPT !.sched_kwargs = Some("kwargs"),
                        !.use_kdiff = HasSigmas(env.ext_sched)]
  /\ on_device' = IF a.lowmem THEN {} ELSE {"text_encoder", "unet", "vae"}
  /\ pc' = "cnet"
  /\ UNCHANGED <<fail, cfgVars, rngVars, timesteps, sigmas, set_steps_args, hooks, genVars>>

\* SDfu.__init__, lines 93-102: load controlnet
load_controlnet ==
  /\ pc = "cnet"
  /\ IF isset(a.control_mod) /\ ~env.control_exists
     THEN /\ pc' = "failed"
          /\ fail' = "assert: Not found ControlNet model"
          /\ UNCHANGED <<eng, on_device>>
     ELSE /\ eng' = [eng EXCEPT !.use_cnet = isset(a.control_mod)]
          /\ on_device' = IF isset(a.control_mod) /\ ~a.lowmem
                          THEN on_device \cup {"cnet"} ELSE on_device
          /\ pc' = "final"
          /\ fail' = fail
  /\ UNCHANGED <<cfgVars, rngVars, schedVars, hooks, genVars>>

\* accelerate.cpu_offload_with_hook chain of lines 214-219: each model's hooks
\* name the model they evict before it runs; the control network gets a second
\* hook with no predecessor
OffloadHooks(use_cnet) ==
  [m \in Models |->
     CASE m = "text_encoder" -> <<None>>
       [] m = "unet" -> <<Some("text_encoder")>>
       [] m = "vae" -> <<Some("unet")>>
       [] OTHER -> IF use_cnet THEN <<Some("vae"), None>> ELSE <<>>]
NoHooks == [m \in Models |-> <<>>]

\* why final_setup fails on this configuration, "" when it does not
FinalSetupFailure(cfg, e, en) ==
  IF e.uchannels = 9 /\ ~isset(cfg.mask)
    THEN "assert: Inpainting model requires mask"
  ELSE IF e.uchannels = 5 /\ cfg.model \notin models
    THEN "AttributeError: subdir"
  ELSE IF isset(cfg.img_scale) /\ (en.use_cnet \/ cfg.cfg_scale \in {0, 1})
    THEN "assert: Use either Instruct-pix2pix or Controlnet guidance"
  ELSE IF cfg.lowmem /\ ~e.accelerate_ok
    THEN "assert: Install accelerate > 0.17 for model offloading"
  ELSE ""

\* SDfu.final_setup
final_setup ==
  /\ pc = "final"
  /\ LET why == FinalSetupFailure(a, env, eng)
         sn == IF isset(a.img_scale) THEN StrengthDen ELSE a.strength
         \* the schedule is set before the offload assertion of line 212
         setok == why = "" \/ why = "assert: Install accelerate > 0.17 for model offloading"
         new == set_steps(scheduler, eng.use_kdiff, timesteps, sigmas, a.steps, sn, 1)
     IN  /\ fail' = why
         /\ pc' = IF why = "" THEN "ready" ELSE "failed"
         /\ a' = IF setok /\ isset(a.img_scale) THEN [a EXCEPT !.strength = StrengthDen] ELSE a
         /\ eng' = IF setok
                   THEN [eng EXCEPT !.inpaintmod = env.uchannels = 9,
                                    !.depthmod = env.uchannels = 5,
                                    !.final_offload_hook =
                                       IF why = "" /\ a.lowmem
                                       THEN Some(IF eng.use_cnet THEN "cnet" ELSE "vae")
                                       ELSE None]
                   ELSE eng
         /\ scheduler' = IF setok THEN new[1] ELSE scheduler
         /\ timesteps' = IF setok THEN new[2] ELSE timesteps
         /\ sigmas' = IF setok THEN new[3] ELSE sigmas
         /\ set_steps_args' = IF setok THEN <<a.steps, sn, 1>> ELSE set_steps_args
         /\ hooks' = IF why = "" /\ a.lowmem THEN OffloadHooks(eng.use_cnet) ELSE hooks
  /\ UNCHANGED <<env, rngVars, on_device, genVars>>

\* ------------------------------------------- specification: construction
BaseCfg ==
  [model |-> "15", sampler |-> "ddim", seed |-> Some(1), mask |-> None,
   img_scale |-> None, control_mod |-> None, control_scale |-> 1, cfg_scale |-> 7,
   steps |-> 2, strength |-> StrengthDen, batch |-> 1, lowmem |-> FALSE]
BaseEnv ==
  [isxf |-> TRUE, accelerate_ok |-> TRUE, control_exists |-> TRUE, uchannels |-> 4,
   sched_arg |-> None, ext_sched |-> "PNDM"]

\* where the sub-models come from: a built-in model name with the scheduler
\* built from a.sampler or passed in by the caller, or an external model path
ModelSources ==
  {<<"15", None, "PNDM">>, <<"21v", None, "PNDM">>,
   <<"15", Some("DDIM"), "PNDM">>, <<"15", Some("LMSDiscrete"), "PNDM">>,
   <<"runwayml/sd-v1-5", None, "PNDM">>, <<"runwayml/sd-v1-5", None, "LMSDiscrete">>}
SamplerNames == samplers \cup {"uni", "bogus"}

IdleRng ==
  /\ seed = [e \in Engines |-> None]
  /\ g_ = [e \in Engines |-> manual_seed(0)]
  /\ default_gen = 0
  /\ draws = [e \in Engines |-> <<>>]
  /\ ops = [e \in Engines |-> <<>>]
IdleGen ==
  /\ gen = NoGen
  /\ lat = <<>>
  /\ conds = <<>>
  /\ bs = 0
  /\ cws = <<>>
  /\ k = 0
  /\ noise_pred = <<>>
  /\ calls = 0
  /\ trace = <<>>
  /\ mem_trace = <<>>
  /\ inv_trace = <<>>
  /\ output = None

IdleEngine ==
  /\ eng = NoEng
  /\ scheduler = NoScheduler
  /\ timesteps = None
  /\ sigmas = None
  /\ set_steps_args = None
  /\ hooks = NoHooks
  /\ on_device = {}
  /\ IdleRng
  /\ IdleGen

SetupInit ==
  /\ pc = "new"
  /\ fail = ""
  /\ \E src \in ModelSources, smp \in SamplerNames, msk \in {None, Some("mask.png")},
        isc \in {None, Some(ImgScale)}, ctl \in {None, Some("canny")},
        cfg \in {1, 7}, lm \in BOOLEAN :
       a = [BaseCfg EXCEPT !.model = src[1], !.sampler = smp, !.mask = msk,
                           !.img_scale = isc, !.control_mod = ctl, !.cfg_scale = cfg,
                           !.lowmem = lm]
       /\ \E uch \in {4, 5, 9}, cex \in BOOLEAN, xf \in BOOLEAN, acc \in BOOLEAN :
            env = [BaseEnv EXCEPT !.sched_arg = src[2], !.ext_sched = src[3],
                                  !.uchannels = uch, !.control_exists = cex,
                                  !.isxf = xf, !.accelerate_ok = acc]
  /\ IdleEngine

SetupNext ==
  \/ init_setseed
  \/ load_model_custom
  \/ load_model_external
  \/ load_controlnet
  \/ final_setup

SpecSetup == SetupInit /\ [][SetupNext]_vars

\* the sampler names load_model_custom has a branch for (lines 157-181)
SupportedSamplers == samplers \cup {"uni"}

\* C5: construction fails whenever (a) the denoiser has the inpainting
\* architecture and no mask is configured, (b) pixel-edit guidance and a control
\* network are both requested, or (c) the sampler name is not a supported one,
\* wherever the sub-models and the scheduler come from: no such configuration
\* yields a constructed engine.
C5_FatalConfigFails ==
  pc = "ready" =>
    /\ ~(env.uchannels = 9 /\ ~isset(a.mask))
    /\ ~(isset(a.img_scale) /\ isset(a.control_mod))
    /\ a.sampler \in SupportedSamplers

\* --------------------------------------- specification: schedule manager
\* a call of SDfu.set_steps(steps, strength, warmup) on a constructed engine
set_steps_call ==
  /\ pc = "ready"
  /\ \E steps \in 1..MaxSteps, sn \in 1..MaxStrengthNum, warmup \in 0..MaxWarmup :
       LET new == set_steps(scheduler, eng.use_kdiff, timesteps, sigmas, steps, sn, warmup)
       IN  /\ scheduler' = new[1]
           /\ timesteps' = new[2]
           /\ sigmas' = new[3]
           /\ set_steps_args' = <<steps, sn, warmup>>
  /\ UNCHANGED <<pc, fail, eng, cfgVars, rngVars, memVars, genVars>>

StepsInit ==
  /\ pc = "new"
  /\ fail = ""
  /\ \E src \in {<<"15", "PNDM">>, <<"runwayml/sd-v1-5", "PNDM">>},
        smp \in SupportedSamplers :
       /\ a = [BaseCfg EXCEPT !.model = src[1], !.sampler = smp]
       /\ env = [BaseEnv EXCEPT !.ext_sched = src[2]]
  /\ IdleEngine

StepsNext == SetupNext \/ set_steps_call

SpecSteps == StepsInit /\ [][StepsNext]_vars

\* the active schedule: the sigma sequence on the ODE path, the timestep
\* sequence on the discrete path
ActiveSchedule == IF eng.use_kdiff THEN sigmas ELSE timesteps
\* the scheduler's full schedule of the same kind
FullSchedule == IF eng.use_kdiff THEN scheduler.sigmas ELSE scheduler.timesteps

\* C1 as stated: after set_steps(steps, strength, warmup) the active schedule
\* has exactly min(round(steps*strength), steps) + warmup entries.
C1_LengthRounded ==
  (pc = "ready" /\ set_steps_args # None) =>
    LET steps == set_steps_args[1]
        sn == set_steps_args[2]
        warmup == set_steps_args[3]
    IN  Len(ActiveSchedule) = Min(PyRound(steps * sn, StrengthDen), steps) + warmup

\* C1 amended: the product is truncated, not rounded, and the slice cannot be
\* longer than the scheduler's full schedule; with n = min(int(steps*strength),
\* steps), the active schedule is the last n + warmup entries of the full
\* schedule when 1 <= n + warmup <= its length, and the whole full schedule
\* otherwise.
C1_LengthTruncatedCapped ==
  (pc = "ready" /\ set_steps_args # None) =>
    LET steps == set_steps_args[1]
        sn == set_steps_args[2]
        warmup == set_steps_args[3]
        n == Min((steps * sn) \div StrengthDen, steps)
        full == Len(FullSchedule)
        len == IF n + warmup = 0 THEN full ELSE Min(n + warmup, full)
    IN  /\ full = IF eng.use_kdiff \/ (scheduler.cls = "PNDM" /\ steps > 1)
                  THEN steps + 1 ELSE steps
        /\ Len(ActiveSchedule) = len
        /\ ActiveSchedule = SubSeq(FullSchedule, full - len + 1, full)

\* a truncating case: steps*strength is not whole and the slice is not capped
C1_Witness ==
  /\ pc = "ready"
  /\ set_steps_args # None
  /\ (set_steps_args[1] * set_steps_args[2]) % StrengthDen # 0
  /\ set_steps_args[3] = 1
  /\ Len(ActiveSchedule) = (set_steps_args[1] * set_steps_args[2]) \div StrengthDen + 1
  /\ Len(ActiveSchedule) < Len(FullSchedule)

\* ------------------------------------------------------------------ tensors
\* A tensor is a sequence of rows (dimension 0), a row a sequence of NumLoc
\* entries.  A rank-3 tensor (one row taken out of a batch by indexing) is kept
\* as a one-row tensor, which is how broadcasting treats it.
Locs == 1..NumLoc
\* x + y, x - y with a one-row y broadcast over the rows of x; x * c
TAdd(x, y) ==
  [r \in 1..Len(x) |-> [l \in Locs |-> x[r][l] + y[IF Len(y) = 1 THEN 1 ELSE r][l]]]
TSub(x, y) ==
  [r \in 1..Len(x) |-> [l \in Locs |-> x[r][l] - y[IF Len(y) = 1 THEN 1 ELSE r][l]]]
TScale(x, c) == [r \in 1..Len(x) |-> [l \in Locs |-> x[r][l] * c]]

\* torch.cat([x] * n)
Expand(x, n) == Concat([j \in 1..n |-> x])
\* Tensor.repeat(n, 1, 1) on dimension 0: the whole tensor n times over
Repeat(x, n) == Concat([j \in 1..n |-> x])
\* the whole sequence n times over, where every row n times was meant
RepeatTiled(x, n) == Concat([j \in 1..n |-> x])
\* Tensor.repeat_interleave(n, 0): every row n times in a row
RepeatInterleave(x, n) == Concat([j \in 1..Len(x) |-> [i \in 1..n |-> x[j]]])
\* Tensor.chunk(n): pieces of ceil(rows / n) rows, in order
Chunk(x, n) ==
  LET size == (Len(x) + n - 1) \div n
      cnt == (Len(x) + size - 1) \div size
  IN  [j \in 1..cnt |-> SubSeq(x, (j - 1) * size + 1, Min(j * size, Len(x)))]
\* indexing dimension 0 of a tensor: its rows, one by one
Rows(x) == [j \in 1..Len(x) |-> <<x[j]>>]

\* largest r with r * r <= n
ISqrt(n) == CHOOSE r \in 0..n : r * r <= n /\ (r + 1) * (r + 1) > n

\* --------------------------------------------------------- sub-model stubs
\* one number for the extra input channels at a location
SideVal(ch) == Len(ch) + SumSeq([j \in 1..Len(ch) |-> (j + 1) * ch[j]])
\* the denoising network on one row entry: conditioning c, latent value x,
\* timestep t, extra channels ch, control residual res
Eps(c, x, t, ch, res) == 1 + 2 * c + x + t + 3 * SideVal(ch) + res
\* the control network on one row entry
Ctl(c, x, t, ci) == 1 + c + x + t + ci

\* self.unet(X, t, cnd, **ukwargs).sample: X rows of [x, ch] entries, cnd one
\* embedding per row, res the additive residuals (or None)
unet(X, t, cnd, res) ==
  [r \in 1..Len(X) |-> [l \in Locs |->
     Eps(cnd[r], X[r][l].x, t, X[r][l].ch, IF res = None THEN 0 ELSE res[r][l])]]

\* self.kdiff_model(X, sigma, cond=cnd, **ukwargs): K.external.CompVisDenoiser
\* over ModelWrapper.apply_model; the denoised sample x - sigma * eps
kdiff_model(X, sigma, cnd, res) ==
  LET e == unet(X, sigma, cnd, res)
  IN  [r \in 1..Len(X) |-> [l \in Locs |-> X[r][l].x - sigma * e[r][l]]]

\* self.cnet(X, t, cnd, cimg, 1), each residual times a.control_scale
cnet_residuals(X, t, cnd, ci, scale) ==
  [r \in 1..Len(X) |-> [l \in Locs |-> Ctl(cnd[r], X[r][l].x, t, ci) * scale]]

\* scheduler.scale_model_input(lat, t): the samplers of the discrete path
\* (DDIM, PNDM, DPM-Solver, UniPC) return the sample as it is
scale_model_input(x, t) == x

\* scheduler.step(noise_pred, t, lat).prev_sample: a fixed update rule standing
\* for the scheduler's; the noise estimate is a numerator over WeightDen
scheduler_step(np, t, x) ==
  [r \in 1..Len(x) |-> [l \in Locs |->
     (x[r][l] + np[IF Len(np) = 1 THEN 1 ELSE r][l] + t) % LatMod]]

\* one update of a k-diffusion sampler from sigma s to sigma sn with the
\* denoised estimate d: a fixed rule standing for the integrator's
k_update(x, d, s, sn) ==
  [r \in 1..Len(x) |-> [l \in Locs |->
     (x[r][l] + d[IF Len(d) = 1 THEN 1 ELSE r][l] + s + sn) % LatMod]]
\* the second-order samplers' midpoint sigma between two schedule entries (it
\* is no entry of the schedule)
sigma_mid(s, sn) == s - 1

\* ------------------------------------------------- generate: pure parts
\* line 309: the weights in effect, as numerators over WeightDen
EffectiveCws(w, cs) ==
  IF w = None \/ Len(w[1]) # Len(cs)
  THEN [j \in 1..Len(cs) |-> WeightDen \div Len(cs)]
  ELSE w[1]

\* the conditioning tensor without the second unconditional block
BuildCondsNoEditSlot(uc, cs, B, cfg, ilat) ==
  LET ucr == IF B > 1 THEN Repeat(<<uc>>, B) ELSE <<uc>>
      csr == IF B > 1 THEN RepeatInterleave(cs, B) ELSE cs
  IN  IF cfg = 0 THEN ucr
      ELSE IF cfg = 1 THEN SubSeq(csr, 1, Min(B, Len(csr)))
      ELSE ucr \o csr
\* lines 310-313: the conditioning tensor, one embedding per row
BuildConds(uc, cs, B, cfg, ilat) ==
  LET ucr == IF B > 1 THEN Repeat(<<uc>>, B) ELSE <<uc>>
      csr == IF B > 1 THEN RepeatInterleave(cs, B) ELSE cs
  IN  IF cfg = 0 THEN ucr
      ELSE IF cfg = 1 THEN SubSeq(csr, 1, Min(B, Len(csr)))
      ELSE IF ilat = None THEN ucr \o csr
      ELSE ucr \o ucr \o csr

\* lines 361-364 / 325-328: the latent with the side channels of the model
\* variant concatenated on the channel axis
WithSide(x, g, e) ==
  [r \in 1..Len(x) |-> [l \in Locs |->
     [x |-> x[r][l],
      ch |-> IF isok(<<g.mask, g.masked_lat>>) /\ e.inpaintmod
               THEN <<1 - g.mask[1][l], g.masked_lat[1][l]>>
             ELSE IF isok(<<g.depth>>) /\ e.depthmod THEN <<g.depth[1]>>
             ELSE <<>>]]]
\* torch.cat([X, v], dim=1) for a channel v that is the same everywhere
AppendCh(X, v) ==
  [r \in 1..Len(X) |-> [l \in Locs |-> [x |-> X[r][l].x, ch |-> Append(X[r][l].ch, v)]]]
\* X / d, rounded down to the model's integers
DivAll(X, d) ==
  [r \in 1..Len(X) |-> [l \in Locs |->
     [x |-> X[r][l].x \div d,
      ch |-> [j \in 1..Len(X[r][l].ch) |-> X[r][l].ch[j] \div d]]]]

RECURSIVE TSum(_, _)
TSum(acc, ts) == IF ts = <<>> THEN acc ELSE TSum(TAdd(acc, Head(ts)), Tail(ts))

\* lines 387-389 / 349-351: noise_pred = noises[0]; for i in range(len-1):
\* noise_pred += (noises[i+1] - noises[0]) * cfg_scale * cws[i % len(cws)]
GuideStandard(noises, cfg, w) ==
  TSum(TScale(noises[1], WeightDen),
       [i \in 1..(Len(noises) - 1) |->
          TScale(TSub(noises[i + 1], noises[1]), cfg * w[((i - 1) % Len(w)) + 1])])

\* lines 382-384 / 344-346: noises[0] + img_scale * (noises[1] - noises[0]),
\* then += (noises[i+2] - noises[1]) * cfg_scale * cws[i % len(cws)]
GuidePix2Pix(noises, isc, cfg, w) ==
  TSum(TScale(TAdd(noises[1], TScale(TSub(noises[2], noises[1]), isc)), WeightDen),
       [i \in 1..(Len(noises) - 2) |->
          TScale(TSub(noises[i + 2], noises[2]), cfg * w[((i - 1) % Len(w)) + 1])])

\* the control network takes part in a run
CnetActive(e, g) == e.use_cnet /\ g.cimg # None

\* what the ODE path's pixel-edit branch indexes: line 343 does not chunk the
\* denoiser output, so noises[j] is row j of the whole batch
NoisesOdePix2Pix(out) == Rows(out)

\* lines 359-389: the noise estimate of one iteration of the discrete loop
discrete_noise_pred(x, t, g, e, cfg, cnd, nblocks, w, cfga) ==
  LET X == Expand(WithSide(scale_model_input(x, t), g, e), nblocks)
      res == IF CnetActive(e, g)
             THEN Some(cnet_residuals(X, t, cnd, g.cimg[1], cfga.control_scale))
             ELSE None
      ukw == IF res = None THEN None ELSE res[1]
  IN  IF cfg \in {0, 1}
        THEN TScale(unet(X, t, cnd, ukw), WeightDen)
      ELSE IF g.ilat # None /\ isset(cfga.img_scale)
        THEN GuidePix2Pix(Chunk(unet(AppendCh(X, g.ilat[1]), t, cnd, None), nblocks),
                          cfga.img_scale[1], cfg, w)
      ELSE GuideStandard(Chunk(unet(X, t, cnd, ukw), nblocks), cfg, w)

\* lines 323-352: model_fn(x, t) of the ODE path; ok is FALSE when line 341
\* finds no entry of self.sigmas equal to t
model_fn(x, t, sg, g, e, cfg, cnd, nblocks, w, cfga) ==
  LET X == Expand(WithSide(x, g, e), nblocks)
      res == IF CnetActive(e, g)
             THEN Some(cnet_residuals(X, t, cnd, g.cimg[1], cfga.control_scale))
             ELSE None
      ukw == IF res = None THEN None ELSE res[1]
  IN  IF cfg \in {0, 1}
        THEN [ok |-> TRUE, pred |-> TScale(kdiff_model(X, t, cnd, ukw), WeightDen)]
      ELSE IF g.ilat # None /\ isset(cfga.img_scale)
        THEN IF t \notin Range(sg)
             THEN [ok |-> FALSE, pred |-> <<>>]
             ELSE [ok |-> TRUE,
                   pred |-> GuidePix2Pix(
                     NoisesOdePix2Pix(
                       kdiff_model(AppendCh(DivAll(X, ISqrt(t * t + 1)), g.ilat[1]),
                                   t, cnd, None)),
                     cfga.img_scale[1], cfg, w)]
      ELSE [ok |-> TRUE,
            pred |-> GuideStandard(Chunk(kdiff_model(X, t, cnd, ukw), nblocks), cfg, w)]

\* the composite with the mask's polarity exchanged
CompositeSwapped(x, g) ==
  [r \in 1..Len(x) |-> [l \in Locs |->
     g.masked_lat[1][l] * (1 - g.mask[1][l]) + x[r][l] * g.mask[1][l]]]
\* line 395: lat = masked_lat * mask + lat * (1. - mask)
Composite(x, g) ==
  [r \in 1..Len(x) |-> [l \in Locs |->
     g.masked_lat[1][l] * g.mask[1][l] + x[r][l] * (1 - g.mask[1][l])]]

\* vae.config.scaling_factor of the Stable Diffusion VAE, 0.18215
scaling_num == 3643
scaling_den == 20000
\* line 398: lat /= scaling_factor; every entry as the fraction <<num, den>>
Unscale(x) == [r \in 1..Len(x) |-> [l \in Locs |-> <<x[r][l] * scaling_den, scaling_num>>]]

\* ------------------------------------------------ device residency
\* a forward pass of model m under accelerate's hooks: each hook first evicts
\* its predecessor, then m is moved to the device; without hooks nothing moves
HookFwd(dev, m, hk) ==
  IF hk[m] = <<>> THEN dev
  ELSE (dev \ {hk[m][j][1] : j \in {i \in DOMAIN hk[m] : hk[m][i] # None}}) \cup {m}

\* lines 332-339: residency through one model_fn call, as log entries
\* [run, dev]: the model running and what is on the device meanwhile
OdeCallMem(dev, hk, e, g) ==
  LET d1 == IF CnetActive(e, g) THEN HookFwd(dev, "cnet", hk) ELSE dev
      d2 == HookFwd(d1, "unet", hk)
  IN  (IF CnetActive(e, g) THEN <<[run |-> "cnet", dev |-> d1]>> ELSE <<>>)
      \o <<[run |-> "unet", dev |-> d2]>>

\* lines 368-379: residency through one iteration of the discrete loop
DiscreteCallMem(dev, hk, e, g) ==
  LET swap == e.final_offload_hook # None
      d0 == IF swap THEN dev \ {"unet"} ELSE dev
      d1 == HookFwd(d0, "cnet", hk)
      d1b == IF swap THEN d1 \ {"cnet"} ELSE d1
      d2 == HookFwd(IF CnetActive(e, g) THEN d1b ELSE dev, "unet", hk)
  IN  (IF CnetActive(e, g) THEN <<[run |-> "cnet", dev |-> d1]>> ELSE <<>>)
      \o <<[run |-> "unet", dev |-> d2]>>

\* ---------------------------------------------------- generate: the run
Event(ev, idx, t, x, pred, out) ==
  [ev |-> ev, idx |-> idx, t |-> t, x |-> x, pred |-> pred, out |-> out]
Mark(ev, x) == Event(ev, 0, 0, x, <<>>, <<>>)

\* line 307
CfgScale == IF gen.cfg_scale = None THEN a.cfg_scale ELSE gen.cfg_scale[1]
\* the part of the schedule a run walks: self.timesteps[offset:], self.sigmas[offset:]
RunSchedule == PySliceFrom(ActiveSchedule, gen.offset)

\* SDfu.generate, lines 307-320: a call with the arguments inp
generate_begin(inp) ==
  /\ pc \in {"ready", "done"}
  /\ Len(inp.lat) = a.batch
  /\ inp.offset <= Len(ActiveSchedule)
  /\ LET cfg == IF inp.cfg_scale = None THEN a.cfg_scale ELSE inp.cfg_scale[1]
         cnd == BuildConds(inp.uc, inp.cs, a.batch, cfg, inp.ilat)
     IN  /\ gen' = [cs |-> inp.cs, uc |-> inp.uc, cfg_scale |-> inp.cfg_scale,
                    mask |-> inp.mask, masked_lat |-> inp.masked_lat,
                    depth |-> inp.depth, cws |-> inp.cws, cimg |-> inp.cimg,
                    ilat |-> inp.ilat, offset |-> inp.offset]
         /\ cws' = EffectiveCws(inp.cws, inp.cs)
         /\ conds' = cnd
         /\ bs' = Len(cnd) \div a.batch
  /\ lat' = inp.lat
  /\ k' = 0
  /\ noise_pred' = <<>>
  /\ calls' = 0
  /\ trace' = <<>>
  /\ mem_trace' = <<>>
  /\ output' = None
  /\ pc' = "run"
  /\ UNCHANGED <<fail, eng, cfgVars, rngVars, schedVars, memVars, inv_trace>>

\* SDfu.generate, lines 358-392: one iteration of the discrete loop
generate_step_discrete ==
  /\ pc = "run"
  /\ ~eng.use_kdiff
  /\ k < Len(RunSchedule)
  /\ LET t == RunSchedule[k + 1]
         np == discrete_noise_pred(lat, t, gen, eng, CfgScale, conds, bs, cws, a)
         mem == DiscreteCallMem(on_device, hooks, eng, gen)
         new == scheduler_step(np, t, lat)
     IN  /\ noise_pred' = np
         /\ calls' = calls + 1
         /\ mem_trace' = mem_trace \o mem
         /\ on_device' = mem[Len(mem)].dev
         /\ IF eng.sched_kwargs = None
            THEN \* line 391 reads self.sched_kwargs, which was never set
                 /\ pc' = "failed"
                 /\ fail' = "AttributeError: sched_kwargs"
                 /\ trace' = Append(trace, Event("denoise", gen.offset + k, t, lat, np, <<>>))
                 /\ UNCHANGED <<lat, k>>
            ELSE /\ lat' = new
                 /\ k' = k + 1
                 /\ trace' = trace \o <<Event("denoise", gen.offset + k, t, lat, np, <<>>),
                                        Event("step", gen.offset + k, t, lat, np, new)>>
                 /\ UNCHANGED <<pc, fail>>
  /\ UNCHANGED <<eng, cfgVars, rngVars, schedVars, hooks, gen, conds, bs, cws, inv_trace,
                 output>>

\* the integrator steps self.sampling_fn takes over sigmas[offset:]: one per
\* pair of consecutive entries (k_diffusion.sampling.sample_*)
KSteps == Max(Len(RunSchedule) - 1, 0)

\* SDfu.generate, line 353: one step of self.sampling_fn(model_fn, lat,
\* self.sigmas[offset:]) with its calls of model_fn
generate_step_kdiff ==
  /\ pc = "run"
  /\ eng.use_kdiff
  /\ IF eng.sampling_fn = None THEN TRUE ELSE k < KSteps
  /\ IF eng.sampling_fn = None
     THEN \* line 353 reads self.sampling_fn, which was never set
          /\ pc' = "failed"
          /\ fail' = "AttributeError: sampling_fn"
          /\ UNCHANGED <<lat, k, noise_pred, calls, trace, mem_trace, on_device>>
     ELSE LET s == RunSchedule[k + 1]
              sn == RunSchedule[k + 2]
              mid == sigma_mid(s, sn)
              second == eng.sampling_fn[1] = "dpm2_a" /\ sn # 0
              r1 == model_fn(lat, s, sigmas, gen, eng, CfgScale, conds, bs, cws, a)
              x2 == k_update(lat, r1.pred, s, mid)
              r2 == model_fn(x2, mid, sigmas, gen, eng, CfgScale, conds, bs, cws, a)
              last == IF second THEN r2 ELSE r1
              new == k_update(lat, last.pred, s, sn)
              mem1 == OdeCallMem(on_device, hooks, eng, gen)
              mem2 == OdeCallMem(mem1[Len(mem1)].dev, hooks, eng, gen)
              e1 == Event("denoise", gen.offset + k, s, lat, r1.pred, <<>>)
          IN  IF ~r1.ok
              THEN /\ pc' = "failed"
                   /\ fail' = "ValueError: sigma lookup"
                   /\ UNCHANGED <<lat, k, noise_pred, calls, trace, mem_trace, on_device>>
              ELSE IF second /\ ~r2.ok
              THEN /\ pc' = "failed"
                   /\ fail' = "ValueError: sigma lookup"
                   /\ noise_pred' = r1.pred
                   /\ calls' = calls + 1
                   /\ trace' = Append(trace, e1)
                   /\ mem_trace' = mem_trace \o mem1
                   /\ on_device' = mem1[Len(mem1)].dev
                   /\ UNCHANGED <<lat, k>>
              ELSE /\ lat' = new
                   /\ k' = k + 1
                   /\ noise_pred' = last.pred
                   /\ calls' = calls + (IF second THEN 2 ELSE 1)
                   /\ trace' = trace \o <<e1>>
                        \o (IF second
                            THEN <<Event("denoise_mid", gen.offset + k, mid, x2, r2.pred, <<>>)>>
                            ELSE <<>>)
                        \o <<Event("step", gen.offset + k, s, lat, last.pred, new)>>
                   /\ mem_trace' = mem_trace \o mem1 \o (IF second THEN mem2 ELSE <<>>)
                   /\ on_device' = IF second THEN mem2[Len(mem2)].dev ELSE mem1[Len(mem1)].dev
                   /\ UNCHANGED <<pc, fail>>
  /\ UNCHANGED <<eng, cfgVars, rngVars, schedVars, hooks, gen, conds, bs, cws, inv_trace,
                 output>>

\* the order of lines 394-411: composite (if any), decode, offload (if a hook
\* was allocated), return
FinishEventsOffloadFirst(comp, off, x) ==
  (IF comp THEN <<Mark("composite", x)>> ELSE <<>>)
  \o (IF off THEN <<Mark("offload", x)>> ELSE <<>>)
  \o <<Mark("decode", x), Mark("return", x)>>
FinishEvents(comp, off, x) ==
  (IF comp THEN <<Mark("composite", x)>> ELSE <<>>)
  \o <<Mark("decode", x)>>
  \o (IF off THEN <<Mark("offload", x)>> ELSE <<>>)
  \o <<Mark("return", x)>>

\* SDfu.generate, lines 394-411: inpaint composite, decode, offload, return
generate_finish ==
  /\ pc = "run"
  /\ IF eng.use_kdiff THEN eng.sampling_fn # None /\ k = KSteps ELSE k = Len(RunSchedule)
  /\ LET comp == isok(<<gen.mask, gen.masked_lat>>) /\ ~eng.inpaintmod
         x1 == IF comp THEN Composite(lat, gen) ELSE lat
         x2 == Unscale(x1)
         d1 == HookFwd(on_device, "vae", hooks)
         off == eng.final_offload_hook # None
         d2 == IF off THEN d1 \ {eng.final_offload_hook[1]} ELSE d1
     IN  /\ lat' = x1
         /\ output' = Some([decoded |-> x2])
         /\ trace' = trace \o FinishEvents(comp, off, x1)
         /\ mem_trace' = mem_trace \o <<[run |-> "vae", dev |-> d1]>>
              \o (IF off THEN <<[run |-> "offload", dev |-> d2]>> ELSE <<>>)
         /\ on_device' = d2
  /\ pc' = "done"
  /\ UNCHANGED <<fail, eng, cfgVars, rngVars, schedVars, hooks, gen, conds, bs, cws, k,
                 noise_pred, calls, inv_trace>>

\* ------------------------------------------- specification: sampling runs
\* the starting latent of a run: one row per batch entry, rows distinct
Lat0(B) == [r \in 1..B |-> [l \in Locs |-> (r + l) % LatMod]]
\* an encoded masked image: values no update rule of the model produces
MaskedLat0 == [l \in Locs |-> LatMod + l]
BinaryMasks == [Locs -> {0, 1}]
BaseInput ==
  [lat |-> Lat0(1), cs |-> <<1>>, uc |-> 0, cfg_scale |-> None, mask |-> None,
   masked_lat |-> None, depth |-> None, cws |-> None, cimg |-> None, ilat |-> None,
   offset |-> 0]
RunSources == {<<"15", smp>> : smp \in SupportedSamplers} \cup {<<"runwayml/sd-v1-5", "ddim">>}
HalfAndFull == {StrengthDen \div 2, StrengthDen}

RunInit ==
  /\ pc = "new"
  /\ fail = ""
  /\ \E src \in RunSources, lm \in BOOLEAN, uch \in {4, 9}, st \in 1..MaxSteps,
        sn \in HalfAndFull :
       /\ a = [BaseCfg EXCEPT !.model = src[1], !.sampler = src[2], !.lowmem = lm,
                              !.steps = st, !.strength = sn,
                              !.mask = IF uch = 9 THEN Some("mask.png") ELSE None]
       /\ env = [BaseEnv EXCEPT !.uchannels = uch]
  /\ IdleEngine

run_generate ==
  \E msk \in {None} \cup {Some(m) : m \in BinaryMasks}, ml \in {None, Some(MaskedLat0)},
     off \in 0..Len(ActiveSchedule) :
    generate_begin([BaseInput EXCEPT !.mask = msk, !.masked_lat = ml, !.offset = off])

RunNext ==
  \/ SetupNext
  \/ run_generate
  \/ generate_step_discrete
  \/ generate_step_kdiff
  \/ generate_finish

SpecRun == RunInit /\ [][RunNext]_vars

\* the events of the run with the given names
EventsOf(names) == SelectSeq(trace, LAMBDA e : e.ev \in names)
\* the latent the sampling loop produced: the last step's output, or the
\* starting latent when the run took no step
Generated ==
  LET st == EventsOf({"step"})
  IN  IF st = <<>> THEN Lat0(a.batch) ELSE st[Len(st)].out

C2_WitnessDiscrete ==
  /\ pc = "done"
  /\ ~eng.use_kdiff
  /\ gen.offset = 1
  /\ calls = Len(ActiveSchedule) - 1
  /\ calls >= 1

\* the inpaint composite of a standard model applies to the run
Composited == isok(<<gen.mask, gen.masked_lat>>) /\ ~eng.inpaintmod

\* C4 as stated: with a standard model, a binary mask M and a masked-latent,
\* the latent handed to the decoder is the masked-latent where M = 0 and the
\* generated latent where M = 1 (and is not composited for an inpaint model).
C4_OriginalOutsideMask ==
  pc = "done" =>
    IF Composited
    THEN \A r \in 1..a.batch, l \in Locs :
           lat[r][l] = IF gen.mask[1][l] = 0 THEN gen.masked_lat[1][l]
                       ELSE Generated[r][l]
    ELSE lat = Generated

\* C4 amended: the composite is masked_latent where M = 1 and the generated
\* latent where M = 0; it is what the decoder is handed, divided by the VAE
\* scaling factor; an inpaint-architecture model gets no composite.
C4_OriginalWhereMaskIsOne ==
  pc = "done" =>
    /\ IF Composited
       THEN \A r \in 1..a.batch, l \in Locs :
              lat[r][l] = IF gen.mask[1][l] = 1 THEN gen.masked_lat[1][l]
                          ELSE Generated[r][l]
       ELSE lat = Generated
    /\ output = Some([decoded |->
         [r \in 1..a.batch |-> [l \in Locs |-> <<lat[r][l] * scaling_den, scaling_num>>]]])

\* a composited run whose mask has both values and that took a step
C4_Witness ==
  /\ pc = "done"
  /\ Composited
  /\ {gen.mask[1][l] : l \in Locs} = {0, 1}
  /\ EventsOf({"step"}) # <<>>
  /\ lat # Generated

\* the run's events as <<name, schedule index>> pairs
Tags == [j \in 1..Len(trace) |-> <<trace[j].ev, trace[j].idx>>]
\* the tags of the closing events of a run
FinishTags ==
  (IF Composited THEN <<<<"composite", 0>>>> ELSE <<>>)
  \o <<<<"decode", 0>>>>
  \o (IF eng.final_offload_hook # None THEN <<<<"offload", 0>>>> ELSE <<>>)
  \o <<<<"return", 0>>>>
\* one denoise step per schedule entry from..to, in order
EntryTags(from, to) ==
  Concat([j \in 1..(to - from + 1) |->
            <<<<"denoise", from + j - 1>>, <<"step", from + j - 1>>>>])
\* one integrator step per schedule entry from..to; the second-order sampler
\* evaluates the denoiser a second time except on the step to..to+1
OdeTags(from, to, second) ==
  Concat([j \in 1..(to - from + 1) |->
            <<<<"denoise", from + j - 1>>>>
            \o (IF second /\ from + j - 1 < to
                THEN <<<<"denoise_mid", from + j - 1>>>> ELSE <<>>)
            \o <<<<"step", from + j - 1>>>>])
\* every step takes the latent the step before it produced, the first one the
\* starting latent, and the denoiser is evaluated on the step's input
StepsChained ==
  LET st == EventsOf({"step"})
      dn == EventsOf({"denoise"})
  IN  /\ Len(dn) = Len(st)
      /\ \A j \in 1..Len(st) :
           /\ st[j].x = IF j = 1 THEN Lat0(a.batch) ELSE st[j - 1].out
           /\ dn[j].x = st[j].x
           /\ dn[j].idx = st[j].idx

C10_WitnessOde ==
  /\ pc = "done"
  /\ eng.use_kdiff
  /\ Len(EventsOf({"denoise_mid"})) >= 1
  /\ gen.offset = 1

\* ---------------------------------------------- specification: guidance
PromptEmbs == {1, 2}
UncondEmbs == {0}
Weights == {1, 2}
SeqsUpTo(S, n) == UNION {[1..m -> S] : m \in 1..n}
GuideSources ==
  {<<"15", "ddim">>, <<"15", "euler">>, <<"15", "dpm2_a">>, <<"runwayml/sd-v1-5", "ddim">>}

GuideInit ==
  /\ pc = "new"
  /\ fail = ""
  /\ \E src \in GuideSources, B \in 1..MaxBatch, isc \in {None, Some(ImgScale)} :
       a = [BaseCfg EXCEPT !.model = src[1], !.sampler = src[2], !.batch = B,
                           !.img_scale = isc]
  /\ env = BaseEnv
  /\ IdleEngine

guide_generate ==
  \E cs \in SeqsUpTo(PromptEmbs, MaxPrompts), uc \in UncondEmbs,
     cfg \in {None, Some(0), Some(1)},
     w \in {None} \cup {Some(v) : v \in SeqsUpTo(Weights, MaxPrompts)},
     il \in {None, Some(1)} :
    generate_begin([BaseInput EXCEPT !.lat = Lat0(a.batch), !.cs = cs, !.uc = uc,
                                     !.cfg_scale = cfg, !.cws = w, !.ilat = il])

GuideNext ==
  \/ SetupNext
  \/ guide_generate
  \/ generate_step_discrete
  \/ generate_step_kdiff
  \/ generate_finish

SpecGuide == GuideInit /\ [][GuideNext]_vars

DenoiseEvents == EventsOf({"denoise", "denoise_mid"})
InRun == pc \in {"run", "done"} \/ (pc = "failed" /\ trace # <<>>)
\* no side channel and no control network take part in the run
PlainRun ==
  /\ ~CnetActive(eng, gen)
  /\ ~(isok(<<gen.mask, gen.masked_lat>>) /\ eng.inpaintmod)
  /\ ~(isok(<<gen.depth>>) /\ eng.depthmod)
\* what the denoiser returns for a row entry with latent value x conditioned on
\* embedding c at timestep or sigma t, with extra channels ch: the stub's noise
\* on the discrete path, the denoised sample on the ODE path
BlockOut(c, x, t, ch) ==
  IF eng.use_kdiff THEN x - t * Eps(c, x, t, ch, 0) ELSE Eps(c, x, t, ch, 0)
\* the weights of the call: a supplied vector of the prompts' length, else 1/N
CallWeights ==
  IF gen.cws # None /\ Len(gen.cws[1]) = Len(gen.cs) THEN gen.cws[1]
  ELSE [i \in 1..Len(gen.cs) |-> WeightDen \div Len(gen.cs)]

\* C3: in standard multi-prompt guidance (cfg_scale not 0 or 1, no edit
\* latent), for every batch size, every number N of prompts and every weight
\* vector of length N, the noise estimate of every denoise call is, per batch
\* row, uncond + sum_i cfg_scale * weight_i * (text_i - uncond), text_i being the
\* denoiser's output for prompt i on that row, on both integrator paths.
C3_StandardGuidance ==
  (InRun /\ CfgScale \notin {0, 1} /\ gen.ilat = None /\ PlainRun) =>
    \A j \in 1..Len(DenoiseEvents) :
      LET e == DenoiseEvents[j]
          U(b, l) == BlockOut(gen.uc, e.x[b][l], e.t, <<>>)
          T(i, b, l) == BlockOut(gen.cs[i], e.x[b][l], e.t, <<>>)
      IN  /\ Len(e.pred) = a.batch
          /\ \A b \in 1..a.batch, l \in Locs :
               e.pred[b][l] =
                 WeightDen * U(b, l)
                 + SumSeq([i \in 1..Len(gen.cs) |->
                      CfgScale * CallWeights[i] * (T(i, b, l) - U(b, l))])

\* a finished run with two batch rows, two different prompts and two
\* different supplied weights
C3_Witness ==
  /\ pc = "done"
  /\ CfgScale \notin {0, 1}
  /\ gen.ilat = None
  /\ a.batch = 2
  /\ Len(gen.cs) = 2
  /\ gen.cs[1] # gen.cs[2]
  /\ gen.cws # None
  /\ Len(gen.cws[1]) = 2
  /\ gen.cws[1][1] # gen.cws[1][2]
  /\ DenoiseEvents # <<>>

\* C7: in pixel-edit mode (image-guidance scale set, edit latent supplied,
\* cfg_scale not 0 or 1), for every batch size and on both paths, the noise
\* estimate of every denoise call is, per batch row, uncond + image_scale *
\* (image_guided - uncond) + sum_i cfg_scale * weight_i * (text_i - image_guided),
\* over the per-block predictions [uncond, image_guided, text_1..text_N].
C7_PixelEditGuidance ==
  (InRun /\ CfgScale \notin {0, 1} /\ gen.ilat # None /\ isset(a.img_scale) /\ PlainRun) =>
    \A j \in 1..Len(DenoiseEvents) :
      LET e == DenoiseEvents[j]
          in(b, l) == IF eng.use_kdiff THEN e.x[b][l] \div ISqrt(e.t * e.t + 1)
                      ELSE e.x[b][l]
          U(b, l) == BlockOut(gen.uc, in(b, l), e.t, <<gen.ilat[1]>>)
          I(b, l) == BlockOut(gen.uc, in(b, l), e.t, <<gen.ilat[1]>>)
          T(i, b, l) == BlockOut(gen.cs[i], in(b, l), e.t, <<gen.ilat[1]>>)
      IN  /\ Len(e.pred) = a.batch
          /\ \A b \in 1..a.batch, l \in Locs :
               e.pred[b][l] =
                 WeightDen * (U(b, l) + a.img_scale[1] * (I(b, l) - U(b, l)))
                 + SumSeq([i \in 1..Len(gen.cs) |->
                      CfgScale * CallWeights[i] * (T(i, b, l) - I(b, l))])

\* the conditioning layout of a call: blocks of B rows each
ExpectedBlocks ==
  IF CfgScale = 0 THEN <<gen.uc>>
  ELSE IF CfgScale = 1 THEN <<gen.cs[1]>>
  ELSE IF gen.ilat = None THEN <<gen.uc>> \o gen.cs
  ELSE <<gen.uc, gen.uc>> \o gen.cs

\* C8: the conditioning tensor is the unconditional block alone when
\* cfg_scale = 0, the first B rows of the batch-repeated prompt embeddings when
\* cfg_scale = 1, else [uncond, cond_1..cond_N], with a second uncond block when
\* an edit latent is supplied; every block has B rows, bs is 1, 1, N+1, N+2;
\* for cfg_scale 0 or 1 neither it nor the noise estimate depends on the
\* weights (nor, for cfg_scale 0, on the prompt embeddings).
C8_ConditioningLayout ==
  InRun =>
    /\ bs = Len(ExpectedBlocks)
    /\ bs = (IF CfgScale \in {0, 1} THEN 1
             ELSE IF gen.ilat = None THEN Len(gen.cs) + 1 ELSE Len(gen.cs) + 2)
    /\ Len(conds) = bs * a.batch
    /\ \A r \in 1..Len(conds) : conds[r] = ExpectedBlocks[((r - 1) \div a.batch) + 1]
    /\ (CfgScale \in {0, 1} /\ PlainRun) =>
         \A j \in 1..Len(DenoiseEvents) :
           LET e == DenoiseEvents[j]
           IN  /\ Len(e.pred) = a.batch
               /\ \A b \in 1..a.batch, l \in Locs :
                    e.pred[b][l] =
                      WeightDen * BlockOut(IF CfgScale = 0 THEN gen.uc ELSE gen.cs[1],
                                           e.x[b][l], e.t, <<>>)

\* a run with an edit latent, two batch rows and two different prompts
C8_Witness ==
  /\ pc = "run"
  /\ CfgScale \notin {0, 1}
  /\ gen.ilat # None
  /\ a.batch = 2
  /\ Len(gen.cs) = 2
  /\ gen.cs[1] # gen.cs[2]
  /\ bs = 4
\* a finished conditional-only run with supplied weights
C8_WitnessCfgOne ==
  /\ pc = "done"
  /\ CfgScale = 1
  /\ gen.cws # None
  /\ Len(gen.cs) = 2
  /\ DenoiseEvents # <<>>

\* ------------------------------------- specification: low-memory residency
MemSources ==
  {<<"15", "ddim">>, <<"15", "pndm">>, <<"15", "euler">>, <<"15", "dpm2_a">>,
   <<"runwayml/sd-v1-5", "ddim">>}

MemInit ==
  /\ pc = "new"
  /\ fail = ""
  /\ \E src \in MemSources, lm \in BOOLEAN, ctl \in {None, Some("canny")},
        st \in 1..MaxSteps :
       a = [BaseCfg EXCEPT !.model = src[1], !.sampler = src[2], !.lowmem = lm,
                           !.control_mod = ctl, !.steps = st]
  /\ env = BaseEnv
  /\ IdleEngine

mem_generate ==
  \E ci \in {None, Some(1)} : generate_begin([BaseInput EXCEPT !.cimg = ci])

MemNext ==
  \/ SetupNext
  \/ mem_generate
  \/ generate_step_discrete
  \/ generate_step_kdiff
  \/ generate_finish

SpecMem == MemInit /\ [][MemNext]_vars

\* C9: in low-memory mode, at every point of a generate run at most one of
\* the text encoder, the denoiser, the decoder and the control network is in
\* device memory; with an active control network the denoiser is not on the
\* device while the control network runs, nor the control network while the
\* denoiser runs, on the discrete path and on the ODE path alike.
C9_OneModelOnDevice ==
  eng.final_offload_hook # None =>
    \A j \in 1..Len(mem_trace) :
      /\ Cardinality(mem_trace[j].dev) <= 1
      /\ mem_trace[j].run = "cnet" => "unet" \notin mem_trace[j].dev
      /\ mem_trace[j].run = "unet" => "cnet" \notin mem_trace[j].dev

\* ------------------------------------------------------ random operations
\* a value drawn from a generator: the generator's seed (None for torch's
\* default generator, which the engine never seeds) and the position in its
\* stream
Drawn(sd, n) == [seed |-> sd, n |-> n]
RngOp(name, sd, det) == [op |-> name, seed |-> sd, det |-> det]

\* torch.randn(..., generator=self.g_) on engine e, called by operation op
draw_seeded(e, op) ==
  /\ draws' = [draws EXCEPT ![e] = Append(@, Drawn(Some(g_[e].seed), g_[e].n))]
  /\ g_' = [g_ EXCEPT ![e].n = @ + 1]
  /\ ops' = [ops EXCEPT ![e] = Append(@, op)]
  /\ UNCHANGED <<seed, default_gen>>

\* a draw that names no generator (torch.randn_like, latent_dist.sample()):
\* it comes from the default generator of the process
draw_default(e, op) ==
  /\ draws' = [draws EXCEPT ![e] = Append(@, Drawn(None, default_gen))]
  /\ default_gen' = default_gen + 1
  /\ ops' = [ops EXCEPT ![e] = Append(@, op)]
  /\ UNCHANGED <<seed, g_>>

\* SDfu.rnd_z, line 283
rnd_z(e) == draw_seeded(e, RngOp("rnd_z", None, FALSE))

\* SDfu.lat_z, lines 270-273
lat_z(e) ==
  IF eng.use_kdiff
  THEN draw_default(e, RngOp("lat_z", None, FALSE))
  ELSE draw_seeded(e, RngOp("lat_z", None, FALSE))

\* SDfu.img_lat, line 249: postr.mean if deterministic else postr.sample()
img_lat(e, deterministic) ==
  IF deterministic
  THEN /\ ops' = [ops EXCEPT ![e] = Append(@, RngOp("img_lat", None, TRUE))]
       /\ UNCHANGED <<seed, g_, default_gen, draws>>
  ELSE draw_default(e, RngOp("img_lat", None, FALSE))

\* SDfu.setseed, lines 223-225
setseed(e, sd) ==
  \E tm \in TimeSeeds :
    /\ seed' = [seed EXCEPT ![e] = Some(setseed_value(sd, tm))]
    /\ g_' = [g_ EXCEPT ![e] = manual_seed(setseed_value(sd, tm))]
    /\ ops' = [ops EXCEPT ![e] = Append(@, RngOp("setseed", sd, FALSE))]
    /\ UNCHANGED <<default_gen, draws>>

\* ------------------------------------------ specification: seeded randomness
\* Two engine instances of one process, built from the same configuration.
\* The first runs any operations; the second runs the same operations in the
\* same order, at any later time.
SeedArgs == {None} \cup {Some(s) : s \in 0..MaxSeed}

RngInit ==
  /\ pc = "new"
  /\ fail = ""
  /\ \E src \in {<<"15", "ddim">>, <<"15", "euler">>, <<"runwayml/sd-v1-5", "ddim">>},
        sd \in SeedArgs :
       a = [BaseCfg EXCEPT !.model = src[1], !.sampler = src[2], !.seed = sd]
  /\ env = BaseEnv
  /\ IdleEngine

\* SDfu.__init__ run a second time on the same configuration: line 64; the
\* attributes of the second instance are those of the first
second_instance ==
  /\ pc = "ready"
  /\ seed[2] = None
  /\ \E tm \in TimeSeeds :
       /\ seed' = [seed EXCEPT ![2] = Some(setseed_value(a.seed, tm))]
       /\ g_' = [g_ EXCEPT ![2] = manual_seed(setseed_value(a.seed, tm))]
  /\ UNCHANGED <<pc, fail, eng, cfgVars, default_gen, draws, ops, schedVars, memVars, genVars>>

\* engine e may be called with op next
MayCall(e, op) ==
  /\ pc = "ready"
  /\ seed[e] # None
  /\ IF e = 1 THEN Len(ops[1]) < MaxOps
     ELSE Len(ops[e]) < Len(ops[1]) /\ ops[1][Len(ops[e]) + 1] = op

call_rnd_z ==
  /\ \E e \in Engines : MayCall(e, RngOp("rnd_z", None, FALSE)) /\ rnd_z(e)
  /\ UNCHANGED <<pc, fail, eng, cfgVars, schedVars, memVars, genVars>>

call_lat_z ==
  /\ \E e \in Engines : MayCall(e, RngOp("lat_z", None, FALSE)) /\ lat_z(e)
  /\ UNCHANGED <<pc, fail, eng, cfgVars, schedVars, memVars, genVars>>

call_img_lat ==
  /\ \E e \in Engines, det \in BOOLEAN :
       MayCall(e, RngOp("img_lat", None, det)) /\ img_lat(e, det)
  /\ UNCHANGED <<pc, fail, eng, cfgVars, schedVars, memVars, genVars>>

call_setseed ==
  /\ \E e \in Engines, sd \in SeedArgs :
       MayCall(e, RngOp("setseed", sd, FALSE)) /\ setseed(e, sd)
  /\ UNCHANGED <<pc, fail, eng, cfgVars, schedVars, memVars, genVars>>

RngNext ==
  \/ SetupNext
  \/ second_instance
  \/ call_rnd_z
  \/ call_lat_z
  \/ call_img_lat
  \/ call_setseed

SpecRng == RngInit /\ [][RngNext]_vars

\* a seed argument that setseed takes as given
Truthy(sd) == sd # None /\ sd[1] # 0
\* both instances were given an explicit non-zero seed, at construction and at
\* every re-seeding
SameSeeding ==
  /\ Truthy(a.seed)
  /\ \A j \in 1..Len(ops[1]) : ops[1][j].op = "setseed" => Truthy(ops[1][j].seed)

\* C6: every random value an engine operation obtains (rnd_z, lat_z on either
\* path, non-deterministic img_lat) is drawn from the instance's own seeded
\* generator, so two instances with the same seed that ran the same operations
\* obtained the same values; setseed leaves a fresh generator of the new seed.
C6_DrawsFromOwnGenerator ==
  /\ \A e \in Engines : \A j \in 1..Len(draws[e]) : draws[e][j].seed # None
  /\ (SameSeeding /\ seed[2] # None /\ ops[2] = ops[1]) => draws[2] = draws[1]
  /\ \A e \in Engines :
       (ops[e] # <<>> /\ ops[e][Len(ops[e])].op = "setseed") =>
         g_[e] = manual_seed(seed[e][1])

\* ---------------------------------------------------------- ddim inversion
\* scheduler.alphas_cumprod[t], t in 0..999, as a numerator over
\* num_train_timesteps: it falls as t grows
alphas_cumprod(t) == num_train_timesteps - 1 - t
\* scheduler.final_alpha_cumprod: the level below timestep 0
final_alpha_cumprod == num_train_timesteps

\* line 237: min(t - num_train_timesteps // num_inference_steps, 999)
ddim_cur(t, nis) == Min(t - num_train_timesteps \div nis, 999)
\* line 238
alpha_prod_t(t, nis) ==
  IF ddim_cur(t, nis) >= 0 THEN alphas_cumprod(ddim_cur(t, nis)) ELSE final_alpha_cumprod
\* line 239: next_t is t
alpha_prod_t_next(t) == alphas_cumprod(t)

\* SDfu.next_step_ddim: a fixed rule of the noise, the sample and the two
\* levels standing for lines 240-243
next_step_ddim(noise, t, sample, nis) ==
  [r \in 1..Len(sample) |-> [l \in Locs |->
     (sample[r][l] + noise[r][l] + alpha_prod_t(t, nis) + 2 * alpha_prod_t_next(t)) % LatMod]]

\* a sequence in its own order
SameOrder(ts) == ts
\* reversed(self.scheduler.timesteps)
Reversed(ts) == [j \in 1..Len(ts) |-> ts[Len(ts) + 1 - j]]

\* line 264: self.unet(lat, t, cond, **ukwargs) is handed the latent alone
PlainInput(x) == [r \in 1..Len(x) |-> [l \in Locs |-> [x |-> x[r][l], ch |-> <<>>]]]

\* SDfu.ddim_inv(lat, cond, cimg): the call.  inp also carries the mask, the
\* masked-latent and the depth map the caller prepared for the model;
\* ddim_inv has no parameter for them
ddim_inv_begin(inp) ==
  /\ pc \in {"ready", "inv_done"}
  /\ gen' = [NoGen EXCEPT !.cs = <<inp.cond>>, !.cfg_scale = None, !.cimg = inp.cimg,
                          !.mask = inp.mask, !.masked_lat = inp.masked_lat,
                          !.depth = inp.depth]
  /\ lat' = inp.lat
  /\ conds' = [r \in 1..Len(inp.lat) |-> inp.cond]
  /\ bs' = 1
  /\ cws' = <<>>
  /\ k' = 0
  /\ noise_pred' = <<>>
  /\ calls' = 0
  /\ trace' = <<>>
  /\ mem_trace' = <<>>
  /\ inv_trace' = <<>>
  /\ output' = None
  /\ pc' = "inv"
  /\ UNCHANGED <<fail, eng, cfgVars, rngVars, schedVars, memVars>>

\* SDfu.ddim_inv, lines 257-265: one iteration of the loop
ddim_inv_step ==
  /\ pc = "inv"
  /\ k < Len(scheduler.timesteps)
  /\ LET t == Reversed(scheduler.timesteps)[k + 1]
         nis == scheduler.num_inference_steps[1]
         X == PlainInput(lat)
         res == IF CnetActive(eng, gen)
                THEN Some(cnet_residuals(X, t, conds, gen.cimg[1], a.control_scale))
                ELSE None
         np == unet(X, t, conds, IF res = None THEN None ELSE res[1])
         new == next_step_ddim(np, t, lat, nis)
         mem == OdeCallMem(on_device, hooks, eng, gen)
     IN  /\ noise_pred' = np
         /\ calls' = calls + 1
         /\ lat' = new
         /\ inv_trace' = Append(inv_trace,
              [t |-> t, x |-> lat, X |-> X, res |-> res, pred |-> np,
               alpha_t |-> alpha_prod_t(t, nis), alpha_next |-> alpha_prod_t_next(t),
               out |-> new])
         /\ mem_trace' = mem_trace \o mem
         /\ on_device' = mem[Len(mem)].dev
  /\ k' = k + 1
  /\ UNCHANGED <<pc, fail, eng, cfgVars, rngVars, schedVars, hooks, gen, conds, bs, cws,
                 trace, output>>

\* SDfu.ddim_inv, line 266: return lat
ddim_inv_return ==
  /\ pc = "inv"
  /\ k = Len(scheduler.timesteps)
  /\ output' = Some([inverted |-> lat])
  /\ pc' = "inv_done"
  /\ UNCHANGED <<fail, eng, cfgVars, rngVars, schedVars, memVars, gen, lat, conds, bs, cws,
                 k, noise_pred, calls, trace, mem_trace, inv_trace>>

\* ------------------------------------------------ specification: inversion
InvSources == {<<"15", "ddim">>, <<"15", "pndm">>, <<"runwayml/sd-v1-5", "ddim">>}
\* a mask with both values
Mask01 == [l \in Locs |-> l % 2]
\* what the caller prepared: nothing, a mask with its masked-latent, a depth map
SideInputs ==
  {[mask |-> None, masked_lat |-> None, depth |-> None],
   [mask |-> Some(Mask01), masked_lat |-> Some(MaskedLat0), depth |-> None],
   [mask |-> None, masked_lat |-> None, depth |-> Some(1)]}

InvInit ==
  /\ pc = "new"
  /\ fail = ""
  /\ \E src \in InvSources, uch \in {4, 5, 9}, ctl \in {None, Some("canny")} :
       /\ a = [BaseCfg EXCEPT !.model = src[1], !.sampler = src[2], !.control_mod = ctl,
                              !.mask = IF uch = 9 THEN Some("mask.png") ELSE None]
       /\ env = [BaseEnv EXCEPT !.uchannels = uch]
  /\ IdleEngine

inv_call ==
  \E side \in SideInputs, ci \in {None, Some(1)} :
    ddim_inv_begin([lat |-> Lat0(a.batch), cond |-> 1, cimg |-> ci, mask |-> side.mask,
                    masked_lat |-> side.masked_lat, depth |-> side.depth])

InvNext ==
  \/ SetupNext
  \/ set_steps_call
  \/ inv_call
  \/ ddim_inv_step
  \/ ddim_inv_return

SpecInv == InvInit /\ [][InvNext]_vars

\* C11: every denoiser call of invert follows the injection rules of the forward
\* step: the input is the latent with the model's side channels (1 - mask and
\* the masked-latent for an inpaint model, the depth map for a depth model),
\* and with a control network and a control image the scaled residuals are
\* passed to the denoiser.
C11_InvertInjectsLikeForward ==
  \A j \in 1..Len(inv_trace) :
    LET c == inv_trace[j]
    IN  /\ c.X = WithSide(c.x, gen, eng)
        /\ c.res = IF CnetActive(eng, gen)
                   THEN Some(cnet_residuals(c.X, c.t, conds, gen.cimg[1], a.control_scale))
                   ELSE None
        /\ c.pred = unet(c.X, c.t, conds, IF c.res = None THEN None ELSE c.res[1])

\* C12: invert calls the denoiser once per entry of the scheduler's full
\* schedule, in reverse (ascending) order, whatever strength set_steps was
\* given; at timestep t the current level is the cumulative alpha at
\* t - (train_timesteps div inference_steps), the final cumulative alpha when
\* that index is negative, and the next level the cumulative alpha at t.
C12_InvertWalksFullSchedule ==
  pc \in {"inv", "inv_done"} =>
    LET full == scheduler.timesteps
        ratio == num_train_timesteps \div scheduler.num_inference_steps[1]
    IN  /\ calls = Len(inv_trace)
        /\ calls = k
        /\ calls <= Len(full)
        /\ pc = "inv_done" => calls = Len(full)
        /\ \A j \in 1..Len(inv_trace) :
             LET c == inv_trace[j]
             IN  /\ c.t = full[Len(full) + 1 - j]
                 /\ j > 1 => inv_trace[j - 1].t <= c.t
                 /\ c.alpha_t = IF c.t - ratio < 0 THEN final_alpha_cumprod
                                ELSE alphas_cumprod(c.t - ratio)
                 /\ c.alpha_next = alphas_cumprod(c.t)

\* a finished inversion of several steps on an engine whose active schedule
\* was cut short by a strength below 1
C12_Witness ==
  /\ pc = "inv_done"
  /\ set_steps_args[2] < StrengthDen
  /\ Len(timesteps) < Len(scheduler.timesteps)
  /\ calls = Len(scheduler.timesteps)
  /\ calls >= 2
  /\ inv_trace[1].alpha_t = final_alpha_cumprod
  /\ inv_trace[2].alpha_t # final_alpha_cumprod
  /\ inv_trace[1].t < inv_trace[2].t

\* ------------------------------------ layout and combination (SpecGuide)
\* the conditioning tensor has the second unconditional block
EditLayout ==
  /\ Len(conds) = (Len(gen.cs) + 2) * a.batch
  /\ \A r \in 1..(2 * a.batch) : conds[r] = gen.uc
\* lines 340, 380: the branch of the pixel-edit combination, which also
\* concatenates the edit latent to the denoiser input
PixelEditBranch == gen.ilat # None /\ isset(a.img_scale)

\* C13: in every generate call with cfg_scale not 0 or 1 the layout
\* [uncond, uncond, cond...] is used exactly when the pixel-edit combination
\* is applied; otherwise the layout is [uncond, cond...] and the standard
\* combination pairs weight_i with prompt i: the noise estimate of every
\* denoise call is uncond + sum_i cfg_scale * weight_i * (text_i - uncond).
C13_LayoutMatchesCombination ==
  (InRun /\ CfgScale \notin {0, 1} /\ PlainRun) =>
    /\ EditLayout <=> PixelEditBranch
    /\ ~PixelEditBranch =>
         /\ bs = Len(gen.cs) + 1
         /\ \A j \in 1..Len(DenoiseEvents) :
              LET e == DenoiseEvents[j]
                  U(b, l) == BlockOut(gen.uc, e.x[b][l], e.t, <<>>)
                  T(i, b, l) == BlockOut(gen.cs[i], e.x[b][l], e.t, <<>>)
              IN  \A b \in 1..Min(a.batch, Len(e.pred)), l \in Locs :
                    e.pred[b][l] =
                      WeightDen * U(b, l)
                      + SumSeq([i \in 1..Len(gen.cs) |->
                           CfgScale * CallWeights[i] * (T(i, b, l) - U(b, l))])

\* ------------------------------------------- the recorded seed (SpecRng)
\* the seed argument of the last setseed call on engine e: the one of
\* __init__ (a.seed, None when not set) unless setseed was called since
LastSeedArg(e) ==
  LET calls_ == SelectSeq(ops[e], LAMBDA o : o.op = "setseed")
  IN  IF calls_ = <<>> THEN a.seed ELSE calls_[Len(calls_)].seed

\* C14: after setseed(s) with an integer s, 0 included, the engine's recorded
\* seed is s and its generator is seeded with s; only a call without a seed
\* takes a time-derived one.
C14_GivenSeedIsRecorded ==
  \A e \in Engines :
    (seed[e] # None /\ LastSeedArg(e) # None) =>
      /\ seed[e] = LastSeedArg(e)
      /\ g_[e].seed = LastSeedArg(e)[1]
====
